---------------------------- MODULE Spec2Model ----------------------------
(***************************************************************************)
(* The Smooth module of CellProfiler (cellprofiler/modules/smooth.py).     *)
(*                                                                         *)
(* State: the module's four run-time settings, the workspace handed to     *)
(* run (its image set and its display data) and the trace of one run: the  *)
(* locals object_size and sigma, the filter invocations it made and the    *)
(* exception it raised.                                                    *)
(*                                                                         *)
(* Numbers are exact rationals tagged with their Python type.  The module  *)
(* has no "from __future__ import division" and belongs to the Python 2    *)
(* code base of CellProfiler 2.0 (cellprofiler.cpmodule, cpimage), so "/"  *)
(* between two ints is floor division and "/" with a float operand is true *)
(* division.  Floating-point rounding is not modelled.                     *)
(*                                                                         *)
(* The numeric filters live in cellprofiler.cpmath, outside this file.     *)
(* What run hands them is modelled from run; whether they return or raise  *)
(* is modelled from the specification's error catalogue (FilterOutcome).   *)
(***************************************************************************)
EXTENDS Integers, Sequences, FiniteSets, TLC

VARIABLES
    settings,       \* smoothing_method, wants_automatic_object_size,
                    \* object_size, sigma_range
    image_set,      \* workspace.image_set: sequence of [name, image]
    display_data,   \* workspace.display_data: <<>> or <<[pixel_data, output_pixels]>>
    object_size,    \* run's local object_size: <<>> before run, <<number>> after
    sigma,          \* run's local sigma, likewise
    filter_calls,   \* the filter invocations made by run, in order
    error,          \* <<>> or <<the exception that left run>>
    pc              \* "idle" (run not called), "done" (returned), "failed" (raised)

vars == <<settings, image_set, display_data, object_size, sigma,
          filter_calls, error, pc>>

---------------------------------------------------------------------------
(* Bounds of the model                                                     *)

\* manual diameters range over the integers -MaxNegDiameter .. MaxDiameter
MaxNegDiameter == 1
MaxDiameter == 3
\* edge intensity differences range over 1/10 .. MaxSigmaTenths/10
MaxSigmaTenths == 2
\* the valid pixels of a mask are counted up to MaxValid: nvalid = MaxValid
\* stands for that many or more (as far as the mask's area allows)
MaxValid == 6

---------------------------------------------------------------------------
(* Method tags                                                             *)

FIT_POLYNOMIAL == "Fit Polynomial"
MEDIAN_FILTER == "Median Filter"
GAUSSIAN_FILTER == "Gaussian Filter"
SMOOTH_KEEPING_EDGES == "Smooth Keeping Edges"
CIRCULAR_AVERAGE_FILTER == "Circular Average Filter"

\* the choices of the smoothing_method setting
SupportedMethods ==
    {FIT_POLYNOMIAL, GAUSSIAN_FILTER, MEDIAN_FILTER, SMOOTH_KEEPING_EDGES,
     CIRCULAR_AVERAGE_FILTER}

\* tags outside the choice list, as a pipeline file can carry them into the
\* setting; run's final else branch is for these
UnsupportedMethods == {"Smooth to Average", "Sum of squares"}

MethodTags == SupportedMethods \cup UnsupportedMethods

\* names under which images are read and stored
image_name == "None"
filtered_image_name == "FilteredImage"

---------------------------------------------------------------------------
(* Python numbers: [kind, n, d] is the int n (d = 1) or the float n/d      *)

Abs(x) == IF x < 0 THEN -x ELSE x

RECURSIVE GCD(_, _)
GCD(a, b) == IF b = 0 THEN a ELSE GCD(b, a % b)

\* n/d in lowest terms with a positive denominator (d # 0)
Rat(n, d) ==
    LET s == IF d < 0 THEN -1 ELSE 1
        g == GCD(Abs(n), Abs(d))
    IN  [n |-> (s * n) \div g, d |-> (s * d) \div g]

PyInt(k) == [kind |-> "int", n |-> k, d |-> 1]
PyFloat(n, d) == [kind |-> "float", n |-> Rat(n, d).n, d |-> Rat(n, d).d]

\* float(x) of a setting's value
ToFloat(q) == PyFloat(q.n, q.d)

\* numeric comparison, whatever the types
NumEq(a, b) == a.n * b.d = b.n * a.d
NumLess(a, b) == a.n * b.d < b.n * a.d
NumLeq(a, b) == a.n * b.d <= b.n * a.d

\* a / b: floor division of two ints, true division otherwise
PyDiv(a, b) ==
    IF a.kind = "int" /\ b.kind = "int"
    THEN PyInt(a.n \div b.n)
    ELSE PyFloat(a.n * b.d, a.d * b.n)

\* a + b: int + int is an int, anything else a float
PyAdd(a, b) ==
    IF a.kind = "int" /\ b.kind = "int"
    THEN PyInt(a.n + b.n)
    ELSE PyFloat(a.n * b.d + b.n * a.d, a.d * b.d)

\* max(a, b) and min(a, b) return the first of equal arguments
PyMax(a, b) == IF NumLess(a, b) THEN b ELSE a
PyMin(a, b) == IF NumLess(b, a) THEN b ELSE a

\* np.mean(shape) of a 2D shape: a float
NpMean(shape) == PyFloat(shape[1] + shape[2], 2)


---------------------------------------------------------------------------
(* Settings                                                                *)

\* default of the object_size setting
DefaultObjectSize == 16
\* denominator of the default of the sigma_range setting, 0.1
SigmaRangeDenominator == 10

\* values a user can give the object_size setting (nothing restricts them)
ObjectSizeValues ==
    {Rat(k, 1) : k \in (0 - MaxNegDiameter) .. MaxDiameter}
        \cup {Rat(DefaultObjectSize, 1)}

\* values a user can give the sigma_range setting (the default 0.1 is one)
SigmaRangeValues == {Rat(k, SigmaRangeDenominator) : k \in 1 .. MaxSigmaTenths}

\* the settings as create_settings leaves them
DefaultSettings ==
    [smoothing_method |-> FIT_POLYNOMIAL,
     wants_automatic_object_size |-> TRUE,
     object_size |-> Rat(DefaultObjectSize, 1),
     sigma_range |-> Rat(1, SigmaRangeDenominator)]

\* the names of the three settings that parameterise the filters
ParameterSettings ==
    {"wants_automatic_object_size", "object_size", "sigma_range"}

\* the values a parameter setting can take
SettingValues(name) ==
    CASE name = "wants_automatic_object_size" -> BOOLEAN
      [] name = "object_size" -> ObjectSizeValues
      [] name = "sigma_range" -> SigmaRangeValues

\* faulty variant of VisibleSettings: the sigma_range test is not nested
\* under its own if, so the setting shows for every method but Fit Polynomial
VisibleSettings_SigmaRangeAlways(s) ==
    {"smoothing_method"}
        \cup (IF s.smoothing_method # FIT_POLYNOMIAL
              THEN {"wants_automatic_object_size", "sigma_range"}
                       \cup (IF ~s.wants_automatic_object_size
                             THEN {"object_size"} ELSE {})
              ELSE {})

\* visible_settings, restricted to the method and the parameter settings
VisibleSettings(s) ==
    {"smoothing_method"}
        \cup (IF s.smoothing_method # FIT_POLYNOMIAL
              THEN {"wants_automatic_object_size"}
                       \cup (IF ~s.wants_automatic_object_size
                             THEN {"object_size"} ELSE {})
                       \cup (IF s.smoothing_method = SMOOTH_KEEPING_EDGES
                             THEN {"sigma_range"} ELSE {})
              ELSE {})

---------------------------------------------------------------------------
(* Images                                                                  *)

\* image shapes (H, W): mean/40 below 1, equal to 1, between 1 and 30,
\* equal to 30 and above 30
Shapes ==
    {<<2, 2>>, <<40, 40>>, <<20, 100>>, <<300, 500>>, <<1200, 1200>>,
     <<2400, 2400>>}

Area(shape) == shape[1] * shape[2]

\* the shapes a mask handed in with an image of shape sh can have: the
\* image's, the transposed one and that of the smallest image
MaskShapes(sh) == {sh, <<sh[2], sh[1]>>, <<2, 2>>}

\* a grayscale image: its pixel array (known by its shape and by the filter
\* call that made it, none for an input) and the mask that image.mask gives
Images ==
    {img \in
        UNION {[pixel_data : {[shape |-> sh, by |-> <<>>]},
                mask : [present : {TRUE}, shape : MaskShapes(sh),
                        nvalid : 0 .. MaxValid]] : sh \in Shapes} :
        img.mask.nvalid <= Area(img.mask.shape)}

\* the image run reads: workspace.image_set.get_image(image_name)
GetImage(iset, name) ==
    CHOOSE i \in 1 .. Len(iset) : iset[i].name = name

---------------------------------------------------------------------------
(* run                                                                     *)

\* the constants of the automatic diameter and of the derived parameters
AutoMaxSize == 30
AutoMinSize == 1
AutoDivisor == 40
\* 2.35 = 47/20
SigmaDivisorNum == 47
SigmaDivisorDen == 20
RadiusDivisor == 2
RadiusOffset == 1

\* faulty variant of ResolveObjectSize: the automatic diameter is floored
\* at 30 instead of capped at 30
ResolveObjectSize_FloorThirty(s, pixel_data) ==
    IF s.wants_automatic_object_size
    THEN PyMax(PyInt(AutoMaxSize),
               PyDiv(NpMean(pixel_data.shape), PyInt(AutoDivisor)))
    ELSE ToFloat(s.object_size)

\* faulty variant of ResolveObjectSize: the automatic flag is ignored
ResolveObjectSize_AlwaysManual(s, pixel_data) ==
    ToFloat(s.object_size)

\* object_size as run resolves it
ResolveObjectSize(s, pixel_data) ==
    IF s.wants_automatic_object_size
    THEN PyMin(PyInt(AutoMaxSize),
               PyMax(PyInt(AutoMinSize),
                     PyDiv(NpMean(pixel_data.shape), PyInt(AutoDivisor))))
    ELSE ToFloat(s.object_size)

\* sigma = object_size / 2.35
SigmaOf(os) == PyDiv(os, PyFloat(SigmaDivisorNum, SigmaDivisorDen))

\* object_size/2+1, the radius of the median and the circular average filter
RadiusOf(os) == PyAdd(PyDiv(os, PyInt(RadiusDivisor)), PyInt(RadiusOffset))

\* one filter invocation
FilterCall(fn, pixel_data, mask, params) ==
    [fn |-> fn, pixel_data |-> pixel_data, mask |-> mask, params |-> params]

\* faulty variant of Dispatch: fit_polynomial is not handed image.mask
Dispatch_PolynomialWithoutMask(s, pixel_data, mask, os, sg) ==
    CASE s.smoothing_method = GAUSSIAN_FILTER ->
            <<FilterCall("gaussian_filter", pixel_data, mask, <<sg>>)>>
      [] s.smoothing_method = MEDIAN_FILTER ->
            <<FilterCall("median_filter", pixel_data, mask, <<RadiusOf(os)>>)>>
      [] s.smoothing_method = SMOOTH_KEEPING_EDGES ->
            <<FilterCall("bilateral_filter", pixel_data, mask,
                         <<sg, ToFloat(s.sigma_range)>>)>>
      [] s.smoothing_method = FIT_POLYNOMIAL ->
            <<FilterCall("fit_polynomial", pixel_data,
                         [present |-> FALSE, shape |-> pixel_data.shape,
                          nvalid |-> Area(pixel_data.shape)], <<>>)>>
      [] s.smoothing_method = CIRCULAR_AVERAGE_FILTER ->
            <<FilterCall("circular_average_filter", pixel_data, mask,
                         <<RadiusOf(os)>>)>>
      [] OTHER -> <<>>

\* faulty variant of Dispatch: the chain ends in an else that smooths with
\* the Gaussian filter instead of raising
Dispatch_ElseGaussian(s, pixel_data, mask, os, sg) ==
    CASE s.smoothing_method = MEDIAN_FILTER ->
            <<FilterCall("median_filter", pixel_data, mask, <<RadiusOf(os)>>)>>
      [] s.smoothing_method = SMOOTH_KEEPING_EDGES ->
            <<FilterCall("bilateral_filter", pixel_data, mask,
                         <<sg, ToFloat(s.sigma_range)>>)>>
      [] s.smoothing_method = FIT_POLYNOMIAL ->
            <<FilterCall("fit_polynomial", pixel_data, mask, <<>>)>>
      [] s.smoothing_method = CIRCULAR_AVERAGE_FILTER ->
            <<FilterCall("circular_average_filter", pixel_data, mask,
                         <<RadiusOf(os)>>)>>
      [] OTHER ->
            <<FilterCall("gaussian_filter", pixel_data, mask, <<sg>>)>>

\* the if/elif chain of run: the filter invocations it makes for the method
\* tag (none for a tag outside the five)
Dispatch(s, pixel_data, mask, os, sg) ==
    CASE s.smoothing_method = GAUSSIAN_FILTER ->
            <<FilterCall("gaussian_filter", pixel_data, mask, <<sg>>)>>
      [] s.smoothing_method = MEDIAN_FILTER ->
            <<FilterCall("median_filter", pixel_data, mask, <<RadiusOf(os)>>)>>
      [] s.smoothing_method = SMOOTH_KEEPING_EDGES ->
            <<FilterCall("bilateral_filter", pixel_data, mask,
                         <<sg, ToFloat(s.sigma_range)>>)>>
      [] s.smoothing_method = FIT_POLYNOMIAL ->
            <<FilterCall("fit_polynomial", pixel_data, mask, <<>>)>>
      [] s.smoothing_method = CIRCULAR_AVERAGE_FILTER ->
            <<FilterCall("circular_average_filter", pixel_data, mask,
                         <<RadiusOf(os)>>)>>
      [] OTHER -> <<>>

\* the ValueError of the final else branch: "...: %s" % tag
UnsupportedError(tag) ==
    [type |-> "ValueError",
     message |-> <<"Unsupported smoothing method: ", tag>>]

\* the least number of valid pixels a quadratic surface fit needs
MinFitPixels == 6

\* the number of valid pixels of a mask (an absent mask: all of them)
ValidPixels(mask, shape) ==
    IF mask.present THEN mask.nvalid ELSE Area(shape)

\* whether a filter returns ("ok") or which error it raises: the mask's
\* shape is checked first, then the parameters, then the fit's support
FilterOutcome(call) ==
    IF call.mask.present /\ call.mask.shape # call.pixel_data.shape
    THEN "ShapeMismatch"
    ELSE IF /\ call.fn \in {"gaussian_filter", "bilateral_filter"}
            /\ \E i \in 1 .. Len(call.params) : call.params[i].n <= 0
    THEN "InvalidParameter"
    ELSE IF /\ call.fn = "fit_polynomial"
            /\ ValidPixels(call.mask, call.pixel_data.shape) < MinFitPixels
    THEN "UnderdeterminedFit"
    ELSE "ok"

\* all of run on settings s and input image: its locals, the filter calls
\* it makes, the exception that leaves it (if any) and the pixels it
\* stores (if any)
RunOutcome(s, image) ==
    LET pixel_data == image.pixel_data
        os == ResolveObjectSize(s, pixel_data)
        sg == SigmaOf(os)
        calls == Dispatch(s, pixel_data, image.mask, os, sg)
        raised ==
            IF calls = <<>>
            THEN <<UnsupportedError(s.smoothing_method)>>
            ELSE IF FilterOutcome(calls[1]) # "ok"
            THEN <<[type |-> FilterOutcome(calls[1]), message |-> <<>>]>>
            ELSE <<>>
    IN  [object_size |-> os,
         sigma |-> sg,
         filter_calls |-> calls,
         error |-> raised,
         output_pixels |->
            IF raised = <<>>
            THEN <<[shape |-> pixel_data.shape, by |-> calls]>>
            ELSE <<>>]

---------------------------------------------------------------------------
(* The state machine                                                       *)

Init ==
    /\ settings = DefaultSettings
    /\ \E img \in Images : image_set = <<[name |-> image_name, image |-> img]>>
    /\ display_data = <<>>
    /\ object_size = <<>>
    /\ sigma = <<>>
    /\ filter_calls = <<>>
    /\ error = <<>>
    /\ pc = "idle"

\* the user edits a setting before the run
SetSmoothingMethod(m) ==
    /\ pc = "idle"
    /\ settings' = [settings EXCEPT !.smoothing_method = m]
    /\ UNCHANGED <<image_set, display_data, object_size, sigma, filter_calls,
                   error, pc>>

SetWantsAutomaticObjectSize(b) ==
    /\ pc = "idle"
    /\ settings' = [settings EXCEPT !.wants_automatic_object_size = b]
    /\ UNCHANGED <<image_set, display_data, object_size, sigma, filter_calls,
                   error, pc>>

SetObjectSize(v) ==
    /\ pc = "idle"
    /\ settings' = [settings EXCEPT !.object_size = v]
    /\ UNCHANGED <<image_set, display_data, object_size, sigma, filter_calls,
                   error, pc>>

SetSigmaRange(v) ==
    /\ pc = "idle"
    /\ settings' = [settings EXCEPT !.sigma_range = v]
    /\ UNCHANGED <<image_set, display_data, object_size, sigma, filter_calls,
                   error, pc>>

\* Smooth.run(workspace)
Run ==
    /\ pc = "idle"
    /\ LET image == image_set[GetImage(image_set, image_name)].image
           r == RunOutcome(settings, image)
       IN  /\ object_size' = <<r.object_size>>
           /\ sigma' = <<r.sigma>>
           /\ filter_calls' = r.filter_calls
           /\ error' = r.error
           /\ IF r.error # <<>>
              THEN /\ pc' = "failed"
                   /\ UNCHANGED <<image_set, display_data>>
              ELSE /\ pc' = "done"
                   /\ image_set' =
                        Append(image_set,
                               [name |-> filtered_image_name,
                                image |-> [pixel_data |-> r.output_pixels[1],
                                           parent_image |-> image]])
                   /\ display_data' =
                        <<[pixel_data |-> image.pixel_data,
                           output_pixels |-> r.output_pixels[1]]>>
    /\ UNCHANGED settings

\* the pipeline moves on to the next image set: a fresh workspace
NextImageSet(img) ==
    /\ pc # "idle"
    /\ image_set' = <<[name |-> image_name, image |-> img]>>
    /\ display_data' = <<>>
    /\ object_size' = <<>>
    /\ sigma' = <<>>
    /\ filter_calls' = <<>>
    /\ error' = <<>>
    /\ pc' = "idle"
    /\ UNCHANGED settings

Next ==
    \/ \E m \in MethodTags : SetSmoothingMethod(m)
    \/ \E b \in BOOLEAN : SetWantsAutomaticObjectSize(b)
    \/ \E v \in ObjectSizeValues : SetObjectSize(v)
    \/ \E v \in SigmaRangeValues : SetSigmaRange(v)
    \/ Run
    \/ \E img \in Images : NextImageSet(img)

Spec == Init /\ [][Next]_vars

---------------------------------------------------------------------------
(* Vocabulary of the properties                                            *)

\* run has been called on the current workspace
HasRun == pc # "idle"

\* the image run read
InputImage == image_set[GetImage(image_set, image_name)].image

\* the input image's shape and mean(H, W)/40 as an exact fraction
InputShape == InputImage.pixel_data.shape
MeanOver40 == Rat(InputShape[1] + InputShape[2], 2 * 40)

\* whether the workspace holds an image under the output name
OutputStored == \E i \in 1 .. Len(image_set) : image_set[i].name = filtered_image_name

\* the settings with one of them given another value
WithSetting(s, name, v) == [s EXCEPT ![name] = v]

\* the run on other settings would do what the recorded run did: the same
\* filter calls with the same arguments and the same exception
SameOutcome(s) ==
    LET r == RunOutcome(s, InputImage)
    IN  r.filter_calls = filter_calls /\ r.error = error

\* x/2 + 1 and x/2.35 in exact arithmetic
ExactRadius(x) == Rat(x.n + 2 * x.d, 2 * x.d)
ExactSigma(x) == Rat(20 * x.n, 47 * x.d)

---------------------------------------------------------------------------
(* Properties                                                              *)

C2_NonPositiveDiameterRejected ==
    (/\ HasRun
     /\ ~settings.wants_automatic_object_size
     /\ settings.object_size.n <= 0
     /\ settings.smoothing_method \in SupportedMethods) =>
        /\ pc = "failed"
        /\ error # <<>> /\ error[1].type = "InvalidParameter"
        /\ filter_calls = <<>>
        /\ ~OutputStored

C4_UnsupportedMethodRaises ==
    [][(pc = "idle" /\ pc' # "idle"
            /\ settings.smoothing_method \notin SupportedMethods) =>
        /\ pc' = "failed"
        /\ error' # <<>>
        /\ error'[1].type = "ValueError"
        /\ \E i \in 1 .. Len(error'[1].message) :
                error'[1].message[i] = settings.smoothing_method
        /\ filter_calls' = <<>>
        /\ image_set' = image_set
        /\ display_data' = display_data
        /\ settings' = settings]_vars

\* a run that failed on the tag "Sum of squares"
C4_Witness ==
    /\ pc = "failed"
    /\ settings.smoothing_method = "Sum of squares"
    /\ error = <<UnsupportedError("Sum of squares")>>
    /\ ~OutputStored

\* C5: run invokes exactly one filter, chosen by the method tag: Gaussian
\* with sigma = objectSize/2.35; bilateral with that sigma and the
\* configured sigmaRange; Median and Circular Average with the radius
\* objectSize/2 + 1; Fit Polynomial with the pixel data and the mask only.
C5_FilterParameters ==
    (HasRun /\ settings.smoothing_method \in SupportedMethods) =>
        /\ Len(filter_calls) = 1
        /\ LET c == filter_calls[1]
               os == object_size[1]
               m == settings.smoothing_method
           IN  /\ c.pixel_data = InputImage.pixel_data
               /\ c.mask = InputImage.mask
               /\ m = GAUSSIAN_FILTER =>
                    /\ c.fn = "gaussian_filter" /\ Len(c.params) = 1
                    /\ NumEq(c.params[1], ExactSigma(os))
               /\ m = SMOOTH_KEEPING_EDGES =>
                    /\ c.fn = "bilateral_filter" /\ Len(c.params) = 2
                    /\ NumEq(c.params[1], ExactSigma(os))
                    /\ NumEq(c.params[2], settings.sigma_range)
               /\ m = MEDIAN_FILTER =>
                    /\ c.fn = "median_filter" /\ Len(c.params) = 1
                    /\ NumEq(c.params[1], ExactRadius(os))
               /\ m = CIRCULAR_AVERAGE_FILTER =>
                    /\ c.fn = "circular_average_filter" /\ Len(c.params) = 1
                    /\ NumEq(c.params[1], ExactRadius(os))
               /\ m = FIT_POLYNOMIAL =>
                    /\ c.fn = "fit_polynomial" /\ c.params = <<>>

\* C6: the object_size setting is used only when automatic sizing is off
\* and the sigma_range setting only when the method is Smooth Keeping
\* Edges: a run that differs only in object_size under automatic sizing,
\* or only in sigma_range under another method, has the same outcome.
C6_UnusedSettingsDoNotMatter ==
    HasRun =>
        /\ settings.wants_automatic_object_size =>
                \A v \in ObjectSizeValues :
                    SameOutcome(WithSetting(settings, "object_size", v))
        /\ settings.smoothing_method # SMOOTH_KEEPING_EDGES =>
                \A v \in SigmaRangeValues :
                    SameOutcome(WithSetting(settings, "sigma_range", v))

\* a median run under automatic sizing with neither setting at its default
C6_Witness ==
    /\ pc = "done"
    /\ settings.smoothing_method = MEDIAN_FILTER
    /\ settings.wants_automatic_object_size
    /\ settings.object_size = Rat(MaxDiameter, 1)
    /\ settings.sigma_range = Rat(MaxSigmaTenths, SigmaRangeDenominator)

\* C7: the automatically chosen diameter is at least 30 pixels, and is
\* 1/40 of the image size whenever that is larger.
C7_AutomaticSizeAtLeastThirty ==
    (HasRun /\ settings.wants_automatic_object_size) =>
        /\ NumLeq(Rat(30, 1), object_size[1])
        /\ NumLess(Rat(30, 1), MeanOver40) => NumEq(object_size[1], MeanOver40)

\* C8: for Fit Polynomial and Circular Average Filter the automatic-size
\* flag is not shown by visible_settings and flipping it changes neither
\* the filter's arguments nor the outcome of run.
C8_FlagUnusedByPolynomialAndCircular ==
    (HasRun /\ settings.smoothing_method
                    \in {FIT_POLYNOMIAL, CIRCULAR_AVERAGE_FILTER}) =>
        /\ "wants_automatic_object_size" \notin VisibleSettings(settings)
        /\ SameOutcome(WithSetting(settings, "wants_automatic_object_size",
                                   ~settings.wants_automatic_object_size))

\* C9: for every supported method and every value of the flag, the object
\* size and the sigma range, a parameter setting that visible_settings
\* hides does not influence the filter call of run (no other value of it
\* changes the call), and each one that is shown does (some other value of
\* it changes the call on some image).
C9_HiddenIffWithoutInfluence ==
    (HasRun /\ settings.smoothing_method \in SupportedMethods) =>
        \A name \in ParameterSettings :
            IF name \in VisibleSettings(settings)
            THEN \E v \in SettingValues(name), img \in Images :
                    RunOutcome(WithSetting(settings, name, v), img).filter_calls
                        # RunOutcome(settings, img).filter_calls
            ELSE \A v \in SettingValues(name) :
                    RunOutcome(WithSetting(settings, name, v), InputImage)
                        .filter_calls = filter_calls

\* a bilateral run in manual mode: all three parameter settings are shown
C9_Witness ==
    /\ pc = "done"
    /\ settings.smoothing_method = SMOOTH_KEEPING_EDGES
    /\ ~settings.wants_automatic_object_size
    /\ VisibleSettings(settings) =
            {"smoothing_method"} \cup ParameterSettings
    /\ Len(filter_calls) = 1

=============================================================================
